---- MODULE Spec2Model ----
(***************************************************************************)
(* Model of podcast_summarizer: collector.py (the resolution pipeline, the *)
(* fuzzy matchers, the downloader and the summarizer).                     *)
(*                                                                         *)
(* Fractions are exact rationals <<num, den>> with den > 0.  The floats of *)
(* the program that matter here are 0.05, 0.1, 0.2, 0.3, 0.4, 0.7, 1.0 and *)
(* 0.4 + p * 0.3, 0.7 + p * 0.3; in IEEE doubles 0.4 + 0.3 = 0.7 and       *)
(* 0.7 + 0.3 = 1.0 exactly and both maps are monotone in p, so the order   *)
(* of the rationals is the order of the doubles.                           *)
(***************************************************************************)
EXTENDS Integers, Sequences, FiniteSets, TLC

VARIABLES
    pc,            \* position of get_transcript_from_url
    sink,          \* what update_status delivered: <<[msg, frac]>>
    calls,         \* the collaborator calls made so far, in order
    tmp_created,   \* audio_file is bound (NamedTemporaryFile returned)
    tmp_exists,    \* the temporary file is on disk
    error,         \* the call that raised, or "none"
    outcome,       \* "running", "returned" or "raised"
    total_size,    \* download_audio: declared content-length
    dl,            \* download_audio: bytes counted by the progress branch
    written,       \* download_audio: bytes written to the file
    nchunks,       \* download_audio: chunks yielded by iter_content so far
    reports        \* the sub-progress values the stage callbacks received

pipeVars == <<pc, sink, calls, tmp_created, tmp_exists, error, outcome,
              total_size, dl, written, nchunks, reports>>

VARIABLES
    rss_pc,        \* position of find_episode_in_rss
    rss_entries,   \* feed.entries, what feedparser.parse returned
    rss_title,     \* episode_title
    rss_best,      \* index of best_entry in rss_entries, 0 for None
    rss_ret        \* what find_episode_in_rss returned or raised

rssVars == <<rss_pc, rss_entries, rss_title, rss_best, rss_ret>>

VARIABLES
    it_pc,         \* position of search_itunes_podcast
    it_show,       \* show_name
    it_http,       \* the outcome of the directory request of this call
    it_results,    \* data["results"] of this call's response
    it_best,       \* index of best_match in it_results, 0 for None
    it_ret,        \* what search_itunes_podcast returned or raised
    it_run,        \* 1 for the first call, 2 for the call on the reordered results
    it_first       \* the results and the outcome of the first call

itVars == <<it_pc, it_show, it_http, it_results, it_best, it_ret, it_run, it_first>>

VARIABLES
    sum_pc,        \* position of summarize_text
    sum_text,      \* text_to_summarize
    sum_chunks,    \* text_chunks
    sum_i,         \* the loop index i of line 234
    sum_summaries, \* summaries
    sum_progress,  \* what progress_callback received
    sum_calls,     \* the calls hf_client.summarization received, with their outcome
    sum_combined,  \* combined_summary
    sum_ret        \* what summarize_text returned or raised

sumVars == <<sum_pc, sum_text, sum_chunks, sum_i, sum_summaries, sum_progress,
             sum_calls, sum_combined, sum_ret>>

VARIABLES
    sp_pc,         \* position of search_spotify_episodes
    sp_query,      \* query
    sp_items,      \* results["episodes"]["items"]
    sp_ids,        \* episode_ids
    sp_ret         \* what search_spotify_episodes returned or raised

spVars == <<sp_pc, sp_query, sp_items, sp_ids, sp_ret>>

\* two concurrent runs of get_transcript_from_url, lines 202-219
VARIABLES
    run_pc,         \* per run: where the run is
    temp_filename,  \* per run: the local temp_filename, 0 before line 203
    run_error,      \* per run: the call that raised, or "none"
    tmp_dir,        \* the temporary directory: name -> creating run, 0 = no file
    removed         \* the os.remove calls made: who removed which name, whose file

conVars == <<run_pc, temp_filename, run_error, tmp_dir, removed>>

\* the session state of the page, app.py lines 57-71
VARIABLES
    clients,                \* sp_client and hf_client were built (lines 58-64)
    transcription_result,   \* 0 for None, else the run that produced it
    summary_result,         \* NoSummary for None, else a text and its source
    episode_to_transcribe,  \* None or the selected episode
    search_results,         \* absent, None or a list of episodes and nulls
    ui_pc,                  \* "idle" between script runs, "pipeline" inside
                            \* transcribe_episode
    ui_origin,              \* which handler called transcribe_episode
    ui_runs,                \* the transcriptions started so far
    ui_last                 \* the handler that ran last

uiVars == <<clients, transcription_result, summary_result, episode_to_transcribe,
            search_results, ui_pc, ui_origin, ui_runs, ui_last>>

vars == <<pipeVars, rssVars, itVars, sumVars, spVars, conVars, uiVars>>

\* what each function leaves alone: the state of the other functions
pipeOthers == <<rssVars, itVars, sumVars, spVars, conVars, uiVars>>
rssOthers == <<pipeVars, itVars, sumVars, spVars, conVars, uiVars>>
itOthers == <<pipeVars, rssVars, sumVars, spVars, conVars, uiVars>>
sumOthers == <<pipeVars, rssVars, itVars, spVars, conVars, uiVars>>
spOthers == <<pipeVars, rssVars, itVars, sumVars, conVars, uiVars>>
conOthers == <<pipeVars, rssVars, itVars, sumVars, spVars, uiVars>>
uiOthers == <<pipeVars, rssVars, itVars, sumVars, spVars, conVars>>

(***************************************************************************)
(* Bounds of the model.                                                    *)
(***************************************************************************)
MaxTotalSize == 3
MaxChunkLen == 2
MaxChunks == 3
MaxEntries == 2
MaxResults == 2
MaxTextLen == 7
NumRuns == 2
MaxRuns == 2
MaxShown == 2
MaxNames == 2
MaxItems == 3

(***************************************************************************)
(* Rationals.                                                              *)
(***************************************************************************)
Frac(n, d) == <<n, d>>
FracLeq(a, b) == a[1] * b[2] <= b[1] * a[2]
FracEq(a, b) == a[1] * b[2] = b[1] * a[2]
FracInUnit(a) == a[2] > 0 /\ 0 <= a[1] /\ a[1] <= a[2]
Min(a, b) == IF a <= b THEN a ELSE b

\* mutant of DownloadSubProgress: the cap min(1.0, ...) is forgotten
DownloadSubProgress_NoCap(d, total) == Frac(d, total)

\* download_audio line 147: min(1.0, dl / total_size), for total_size > 0
DownloadSubProgress(d, total) == Frac(Min(d, total), total)
One == Frac(1, 1)

\* mutant of DownloadBand: the band starts at 0.3 and is 0.4 wide
DownloadBand_From30(p) == Frac(3 * p[2] + 4 * p[1], 10 * p[2])
\* line 207: lambda p: update_status("Downloading...", 0.4 + p * 0.3)
DownloadBand(p) == Frac(4 * p[2] + 3 * p[1], 10 * p[2])
\* line 211: lambda p: update_status("Transcribing...", 0.7 + p * 0.3)
TranscribeBand(p) == Frac(7 * p[2] + 3 * p[1], 10 * p[2])

(***************************************************************************)
(* Values returned and exceptions raised by the functions under study.     *)
(***************************************************************************)
NoResult == [kind |-> "none"]
Return(v) == [kind |-> "return", value |-> v]
Raised(e) == [kind |-> "raise", exc |-> e]
None == "None"

(***************************************************************************)
(* difflib.SequenceMatcher(None, a, b).ratio() on strings, which are       *)
(* sequences of one-character strings here, and str.lower().               *)
(***************************************************************************)
LowerChar(c) ==
    CASE c = "A" -> "a" [] c = "B" -> "b" [] c = "C" -> "c" [] c = "D" -> "d"
      [] OTHER -> c
Lower(str) == [i \in 1..Len(str) |-> LowerChar(str[i])]

\* the length of the common run a[i+1..] = b[j+1..] inside the two windows
RECURSIVE RunLength(_, _, _, _, _, _)
RunLength(a, i, ahi, b, j, bhi) ==
    IF i < ahi /\ j < bhi /\ a[i + 1] = b[j + 1]
      THEN 1 + RunLength(a, i + 1, ahi, b, j + 1, bhi)
      ELSE 0

\* find_longest_match over a[alo+1..ahi] and b[blo+1..bhi]: the longest
\* common block, the earliest in a, and of those the earliest in b
LongestMatch(a, alo, ahi, b, blo, bhi) ==
    LET run == [t \in (alo..(ahi - 1)) \X (blo..(bhi - 1)) |->
                  RunLength(a, t[1], ahi, b, t[2], bhi)]
        k == CHOOSE n \in {run[t] : t \in DOMAIN run} : \A t \in DOMAIN run : run[t] <= n
        longest == {t \in DOMAIN run : run[t] = k}
        i == CHOOSE m \in {t[1] : t \in longest} : \A t \in longest : m <= t[1]
        j == CHOOSE m \in {t[2] : t \in {u \in longest : u[1] = i}} :
                \A t \in {u \in longest : u[1] = i} : m <= t[2]
    IN  <<i, j, k>>

\* get_matching_blocks: the sizes of the matching blocks, summed
RECURSIVE MatchCount(_, _, _, _, _, _)
MatchCount(a, alo, ahi, b, blo, bhi) ==
    IF alo >= ahi \/ blo >= bhi THEN 0
    ELSE LET m == LongestMatch(a, alo, ahi, b, blo, bhi)
         IN  IF m[3] = 0 THEN 0
             ELSE m[3] + MatchCount(a, alo, m[1], b, blo, m[2])
                       + MatchCount(a, m[1] + m[3], ahi, b, m[2] + m[3], bhi)

\* ratio(): 2.0 * matches / (len(a) + len(b)), and 1.0 for two empty strings
Ratio(a, b) ==
    IF Len(a) + Len(b) = 0 THEN Frac(1, 1)
    ELSE Frac(2 * MatchCount(a, 0, Len(a), b, 0, Len(b)), Len(a) + Len(b))

\* max(seq, key=..., default=None) over the scores: the index of the first
\* element whose key is maximal, 0 (None) for an empty sequence
MaxIndex(keys) ==
    IF Len(keys) = 0 THEN 0
    ELSE CHOOSE i \in 1..Len(keys) :
           /\ \A j \in 1..Len(keys) : FracLeq(keys[j], keys[i])
           /\ \A j \in 1..(i - 1) : ~FracLeq(keys[i], keys[j])

(***************************************************************************)
(* find_episode_in_rss, lines 112-132.  A feed entry is a record with the  *)
(* optional keys title and enclosures; an enclosure is its href.           *)
(***************************************************************************)
RssTitles ==
    { <<"a", "b", "c", "d">>, <<"A", "b", "C", "d">>, <<"a", "b", "x", "c", "d">>,
      <<"a", "b", "c", "d", "e", "f">>, <<"x", "y">> }
RssEnclosures == { <<>>, <<"u1">>, <<"u2", "u1">> }
\* keys holds the keys the entry has; a missing key carries the value <<>>
RssEntry ==
    { [keys |-> ks,
       title |-> IF "title" \in ks THEN t ELSE <<>>,
       enclosures |-> IF "enclosures" \in ks THEN en ELSE <<>>] :
        ks \in SUBSET {"title", "enclosures"}, t \in RssTitles, en \in RssEnclosures }
RssQueries == { <<"a", "b", "c", "d">>, <<"A", "B", "c", "d">> }

SeqsUpTo(S, n) == UNION {[1..m -> S] : m \in 0..n}

\* e.get("title", "")
GetTitle(e) == IF "title" \in e.keys THEN e.title ELSE <<>>

\* lines 117-119: the key of an entry
EntryKey(e, episode_title) == Ratio(Lower(GetTitle(e)), Lower(episode_title))

\* mutant of AboveThreshold: >= 0.8 instead of > 0.8
AboveThreshold_Geq(score) == FracLeq(Frac(8, 10), score)

\* line 129: ratio > 0.8
AboveThreshold(score) == ~FracLeq(score, Frac(8, 10))

\* lines 115-121
BestEntry(entries, episode_title) ==
    MaxIndex([i \in 1..Len(entries) |-> EntryKey(entries[i], episode_title)])

\* lines 122-132, with the short-circuit order of the condition: an entry
\* with neither key is an empty (false) dict, and best_entry.title of an
\* entry without a title raises AttributeError
Decide(entries, best, episode_title) ==
    IF best = 0 THEN Raised("Episode not found in the RSS feed.")
    ELSE LET e == entries[best] IN
      IF e.keys = {}
        THEN Raised("Episode not found in the RSS feed.")
      ELSE IF "enclosures" \notin e.keys \/ e.enclosures = <<>>
        THEN Raised("Episode not found in the RSS feed.")
      ELSE IF "title" \notin e.keys
        THEN Raised("AttributeError")
      ELSE IF AboveThreshold(Ratio(Lower(e.title), Lower(episode_title)))
        THEN Return(e.enclosures[1])
      ELSE Raised("Episode not found in the RSS feed.")

RssIdle ==
    /\ rss_entries = <<>>
    /\ rss_title = <<>>
    /\ rss_best = 0
    /\ rss_ret = NoResult

RssInit ==
    /\ rss_pc = "parse"
    /\ rss_entries \in SeqsUpTo(RssEntry, MaxEntries)
    /\ rss_title \in RssQueries
    /\ rss_best = 0
    /\ rss_ret = NoResult

\* lines 114-121: the feed is parsed and the best entry picked
RssSelectBest ==
    /\ rss_pc = "parse"
    /\ rss_best' = BestEntry(rss_entries, rss_title)
    /\ rss_pc' = "decide"
    /\ UNCHANGED <<rss_entries, rss_title, rss_ret>>
    /\ UNCHANGED rssOthers

\* lines 122-132: the enclosure is returned or the search fails
RssDecide ==
    /\ rss_pc = "decide"
    /\ rss_ret' = Decide(rss_entries, rss_best, rss_title)
    /\ rss_pc' = "done"
    /\ UNCHANGED <<rss_entries, rss_title, rss_best>>
    /\ UNCHANGED rssOthers

(***************************************************************************)
(* search_itunes_podcast, lines 90-109.  A directory result is a record    *)
(* with the optional keys collectionName and feedUrl.                      *)
(***************************************************************************)
ItunesNames ==
    { <<"a", "b", "c", "d">>, <<"A", "B", "C", "D">>, <<"b", "c", "d">>, <<"x", "y">> }
ItunesFeeds == { "feedA", "feedB" }
\* keys holds the keys the result has; a missing key carries <<>> or ""
ItunesResult ==
    { [keys |-> ks,
       collectionName |-> IF "collectionName" \in ks THEN n ELSE <<>>,
       feedUrl |-> IF "feedUrl" \in ks THEN f ELSE ""] :
        ks \in SUBSET {"collectionName", "feedUrl"}, n \in ItunesNames, f \in ItunesFeeds }
ItunesShows == { <<"A", "b", "c", "d">> }

\* r.get("collectionName", "")
GetCollectionName(r) == IF "collectionName" \in r.keys THEN r.collectionName ELSE <<>>

\* lines 102-104: the key of a result
ResultKey(r, show_name) == Ratio(Lower(GetCollectionName(r)), Lower(show_name))

\* mutant of ItunesBest: the first result is taken as the provider ranked it
ItunesBest_First(results, show_name) == IF Len(results) = 0 THEN 0 ELSE 1

\* lines 100-106
ItunesBest(results, show_name) ==
    MaxIndex([i \in 1..Len(results) |-> ResultKey(results[i], show_name)])

\* mutant of ItunesDecide: a similarity floor of 0.8 as in find_episode_in_rss
ItunesDecide_Threshold(results, best, show_name) ==
    IF /\ best # 0
       /\ "feedUrl" \in results[best].keys
       /\ ~FracLeq(ResultKey(results[best], show_name), Frac(8, 10))
      THEN Return(results[best].feedUrl)
      ELSE Raised("No RSS feed URL found for the podcast.")

\* lines 107-109
ItunesDecide(results, best, show_name) ==
    IF best # 0 /\ results[best].keys # {} /\ "feedUrl" \in results[best].keys
      THEN Return(results[best].feedUrl)
      ELSE Raised("No RSS feed URL found for the podcast.")

Orderings(n) == {f \in [1..n -> 1..n] : \A i, j \in 1..n : f[i] = f[j] => i = j}
Reorder(seq, f) == [i \in 1..Len(seq) |-> seq[f[i]]]

ItunesIdle ==
    /\ it_show = <<>>
    /\ it_http = "none"
    /\ it_results = <<>>
    /\ it_best = 0
    /\ it_ret = NoResult
    /\ it_run = 0
    /\ it_first = NoResult

ItunesInit ==
    /\ it_pc = "request"
    /\ it_show \in ItunesShows
    /\ it_http = "none"
    /\ it_results \in SeqsUpTo(ItunesResult, MaxResults)
    /\ it_best = 0
    /\ it_ret = NoResult
    /\ it_run = 1
    /\ it_first = NoResult

\* lines 92-98: the request fails (transport error, bad status, bad body), or
\* the response holds no result, or it holds it_results
ItunesRequest ==
    /\ it_pc = "request"
    /\ \E http \in {"ok", "error"} :
         /\ it_http' = http
         /\ IF http = "error"
              THEN it_ret' = Raised("HTTPError") /\ it_pc' = "done"
              ELSE IF Len(it_results) = 0
                THEN /\ it_ret' = Raised("No podcast found in iTunes search.")
                     /\ it_pc' = "done"
                ELSE it_ret' = it_ret /\ it_pc' = "select"
    /\ UNCHANGED <<it_show, it_results, it_best, it_run, it_first>>
    /\ UNCHANGED itOthers

\* lines 100-106
ItunesSelectBest ==
    /\ it_pc = "select"
    /\ it_best' = ItunesBest(it_results, it_show)
    /\ it_pc' = "decide"
    /\ UNCHANGED <<it_show, it_http, it_results, it_ret, it_run, it_first>>
    /\ UNCHANGED itOthers

\* lines 107-109
ItunesReturn ==
    /\ it_pc = "decide"
    /\ it_ret' = ItunesDecide(it_results, it_best, it_show)
    /\ it_pc' = "done"
    /\ UNCHANGED <<it_show, it_http, it_results, it_best, it_run, it_first>>
    /\ UNCHANGED itOthers

\* the same show is looked up again and the directory answers with the same
\* results in some order
ItunesAgain ==
    /\ it_pc = "done"
    /\ it_run = 1
    /\ it_first' = [results |-> it_results, http |-> it_http, ret |-> it_ret]
    /\ \E f \in Orderings(Len(it_results)) : it_results' = Reorder(it_results, f)
    /\ it_run' = 2
    /\ it_pc' = "request"
    /\ it_http' = "none"
    /\ it_best' = 0
    /\ it_ret' = NoResult
    /\ UNCHANGED it_show
    /\ UNCHANGED itOthers

(***************************************************************************)
(* search_spotify_episodes, lines 50-69.  A search item is an episode id   *)
(* or None; the batch lookup answers each id with the full episode (shown  *)
(* by its id) or None.                                                     *)
(***************************************************************************)
EpisodeIds == {"e1", "e2"}
Truthy(seq) == Len(seq) > 0

\* line 61: [ep['id'] for ep in simplified_episodes if ep]
EpisodeIdsOf(items) == SelectSeq(items, LAMBDA ep : ep # None)

\* what sp.episodes(ids) can answer: one record per id, the episode or None
BatchAnswers(ids) ==
    {a \in [1..Len(ids) -> EpisodeIds \cup {None}] :
        \A i \in 1..Len(ids) : a[i] \in {ids[i], None}}

SpotifyIdle ==
    /\ sp_query = ""
    /\ sp_items = <<>>
    /\ sp_ids = <<>>
    /\ sp_ret = NoResult

SpotifyInit ==
    /\ sp_pc = "search"
    /\ sp_query \in {"", "lex"}
    /\ sp_items = <<>>
    /\ sp_ids = <<>>
    /\ sp_ret = NoResult

\* lines 52-58: the empty query, the search call and the empty result
SpotifySearch ==
    /\ sp_pc = "search"
    /\ IF sp_query = ""
         THEN /\ sp_ret' = Return(<<>>)
              /\ sp_pc' = "done"
              /\ UNCHANGED sp_items
         ELSE \E ok \in BOOLEAN :
                IF ok
                  THEN \E items \in SeqsUpTo(EpisodeIds \cup {None}, MaxItems) :
                         /\ sp_items' = items
                         /\ IF Truthy(items)
                              THEN sp_pc' = "ids" /\ sp_ret' = sp_ret
                              ELSE sp_pc' = "done" /\ sp_ret' = Return(<<>>)
                  ELSE /\ sp_ret' = Raised("SpotifyException")
                       /\ sp_pc' = "done"
                       /\ UNCHANGED sp_items
    /\ UNCHANGED <<sp_query, sp_ids>>
    /\ UNCHANGED spOthers

\* lines 61-63: the ids of the non-null items
SpotifyIds ==
    /\ sp_pc = "ids"
    /\ sp_ids' = EpisodeIdsOf(sp_items)
    /\ IF Truthy(EpisodeIdsOf(sp_items))
         THEN sp_pc' = "lookup" /\ sp_ret' = sp_ret
         ELSE sp_pc' = "done" /\ sp_ret' = Return(<<>>)
    /\ UNCHANGED <<sp_query, sp_items>>
    /\ UNCHANGED spOthers

\* lines 66-69: the batch lookup, whose answer is returned as it is
SpotifyEpisodes ==
    /\ sp_pc = "lookup"
    /\ \E ok \in BOOLEAN :
         IF ok
           THEN \E a \in BatchAnswers(sp_ids) : sp_ret' = Return(a)
           ELSE sp_ret' = Raised("SpotifyException")
    /\ sp_pc' = "done"
    /\ UNCHANGED <<sp_query, sp_items, sp_ids>>
    /\ UNCHANGED spOthers

(***************************************************************************)
(* summarize_text, lines 222-271.  The text is a sequence of characters:   *)
(* "w" (a letter), " " and "\n".  A summary the provider returns is known  *)
(* by the chunk it answers and by its number of whitespace-delimited       *)
(* tokens; a text made of summaries is the sequence of its pieces, the     *)
(* separator "\n\n" being a piece of its own.                              *)
(***************************************************************************)
TextChars == {"w", " ", "\n"}
SummaryTokens == {1, 200, 201}
ReduceThreshold == 400

Summary(id, n) == [kind |-> "summary", id |-> id, tokens |-> n]
BlankLine == [kind |-> "sep", id |-> 0, tokens |-> 0]

\* str.split("\n\n"): cut at each non-overlapping "\n\n", scanning from the left
RECURSIVE Split(_)
Split(text) ==
    IF \E i \in 1..(Len(text) - 1) : text[i] = "\n" /\ text[i + 1] = "\n"
      THEN LET i == CHOOSE k \in 1..(Len(text) - 1) :
                      /\ text[k] = "\n" /\ text[k + 1] = "\n"
                      /\ \A m \in 1..(k - 1) : ~(text[m] = "\n" /\ text[m + 1] = "\n")
           IN  <<SubSeq(text, 1, i - 1)>> \o Split(SubSeq(text, i + 2, Len(text)))
      ELSE <<text>>

\* not chunk.strip(): nothing but whitespace
IsBlank(chunk) == \A i \in 1..Len(chunk) : chunk[i] \in {" ", "\n"}

\* "\n\n".join(summaries)
RECURSIVE Join(_)
Join(summaries) ==
    IF Len(summaries) = 0 THEN <<>>
    ELSE IF Len(summaries) = 1 THEN <<summaries[1]>>
    ELSE <<summaries[1], BlankLine>> \o Join(Tail(summaries))

\* len(text.split()) of a text made of pieces
RECURSIVE CountTokens(_)
CountTokens(pieces) ==
    IF Len(pieces) = 0 THEN 0 ELSE pieces[1].tokens + CountTokens(Tail(pieces))

\* mutant of Collect: a failed chunk leaves an empty summary behind
Collect_KeepFailed(summaries, o) ==
    IF o.ok THEN Append(summaries, o.summary)
            ELSE Append(summaries, Summary(0, 0))

\* lines 239-250: a summary is appended, a failure is skipped
Collect(summaries, o) ==
    IF o.ok THEN Append(summaries, o.summary) ELSE summaries

\* mutant of NeedsReduction: >= 400 instead of > 400
NeedsReduction_Geq(combined) == CountTokens(combined) >= ReduceThreshold

\* line 259
NeedsReduction(combined) == CountTokens(combined) > ReduceThreshold

SumIdle ==
    /\ sum_text = <<>>
    /\ sum_chunks = <<>>
    /\ sum_i = 0
    /\ sum_summaries = <<>>
    /\ sum_progress = <<>>
    /\ sum_calls = <<>>
    /\ sum_combined = <<>>
    /\ sum_ret = NoResult

SumInit ==
    /\ sum_pc = "split"
    /\ sum_text \in SeqsUpTo(TextChars, MaxTextLen)
    /\ sum_chunks = <<>>
    /\ sum_i = 0
    /\ sum_summaries = <<>>
    /\ sum_progress = <<>>
    /\ sum_calls = <<>>
    /\ sum_combined = <<>>
    /\ sum_ret = NoResult

\* lines 229-232
SumSplit ==
    /\ sum_pc = "split"
    /\ sum_chunks' = Split(sum_text)
    /\ sum_i' = 0
    /\ sum_pc' = "loop"
    /\ UNCHANGED <<sum_text, sum_summaries, sum_progress, sum_calls,
                   sum_combined, sum_ret>>
    /\ UNCHANGED sumOthers

\* what the provider can do with chunk i: fail, or return a summary
ChunkOutcomes(i) ==
    {[ok |-> FALSE, summary |-> Summary(i, 0)]}
      \cup {[ok |-> TRUE, summary |-> Summary(i, n)] : n \in SummaryTokens}

\* lines 234-253: one turn of the loop, for chunk i + 1 of num_chunks
SumChunk ==
    /\ sum_pc = "loop"
    /\ sum_i < Len(sum_chunks)
    /\ sum_i' = sum_i + 1
    /\ IF IsBlank(sum_chunks[sum_i + 1])
         THEN UNCHANGED <<sum_summaries, sum_progress, sum_calls>>
         ELSE \E o \in ChunkOutcomes(sum_i + 1) :
                /\ sum_calls' = Append(sum_calls,
                      [pass |-> "chunk", input |-> sum_chunks[sum_i + 1], outcome |-> o])
                /\ sum_summaries' = Collect(sum_summaries, o)
                /\ sum_progress' =
                      IF o.ok THEN Append(sum_progress, Frac(sum_i + 1, Len(sum_chunks)))
                              ELSE sum_progress
    /\ UNCHANGED <<sum_pc, sum_text, sum_chunks, sum_combined, sum_ret>>
    /\ UNCHANGED sumOthers

\* mutant of ReduceResult: a failed reduction call is not caught
ReduceResult_Raise(combined, o) ==
    IF o.ok THEN Return(<<o.summary>>) ELSE Raised("summarization")

\* lines 260-269: the reduced text when the call returns, the combined
\* summaries when it raises
ReduceResult(combined, o) ==
    IF o.ok THEN Return(<<o.summary>>) ELSE Return(combined)

\* lines 256-271: the summaries are joined and, when long, reduced once
SumCombine ==
    /\ sum_pc = "loop"
    /\ sum_i = Len(sum_chunks)
    /\ sum_combined' = Join(sum_summaries)
    /\ IF NeedsReduction(Join(sum_summaries))
         THEN \E o \in ChunkOutcomes(0) :
                /\ sum_calls' = Append(sum_calls,
                      [pass |-> "reduce", input |-> <<>>, outcome |-> o])
                /\ sum_ret' = ReduceResult(Join(sum_summaries), o)
         ELSE /\ sum_ret' = Return(Join(sum_summaries))
              /\ UNCHANGED sum_calls
    /\ sum_pc' = "done"
    /\ UNCHANGED <<sum_text, sum_chunks, sum_i, sum_summaries, sum_progress>>
    /\ UNCHANGED sumOthers

\* lines 183-187: the status string and the fraction go to the sink
update_status(msg, progress) ==
    sink' = Append(sink, [msg |-> msg, frac |-> progress])

(***************************************************************************)
(* Two concurrent runs of get_transcript_from_url, lines 202-219: each run *)
(* has its own locals; the runs share the temporary directory only.        *)
(***************************************************************************)
Runs == 1..NumRuns
Names == 1..MaxNames

\* mutant of FreshNames: the file is created without the exclusive check
FreshNames_Any(dir) == Names

\* lines 202-203: NamedTemporaryFile creates its file exclusively, under a
\* name no file of the directory has
FreshNames(dir) == {n \in Names : dir[n] = 0}

ConcurrentIdle ==
    /\ run_pc = [r \in Runs |-> "idle"]
    /\ temp_filename = [r \in Runs |-> 0]
    /\ run_error = [r \in Runs |-> "none"]
    /\ tmp_dir = [n \in Names |-> 0]
    /\ removed = {}

ConcurrentInit ==
    /\ run_pc = [r \in Runs |-> "mktemp"]
    /\ temp_filename = [r \in Runs |-> 0]
    /\ run_error = [r \in Runs |-> "none"]
    /\ tmp_dir = [n \in Names |-> 0]
    /\ removed = {}

\* run r leaves its current call: on to `next`, or the call raises and the
\* run goes to `handler`
RunCall(r, who, next, handler) ==
    \E ok \in BOOLEAN :
       IF ok
         THEN /\ run_pc' = [run_pc EXCEPT ![r] = next]
              /\ UNCHANGED run_error
         ELSE /\ run_pc' = [run_pc EXCEPT ![r] = handler]
              /\ run_error' = [run_error EXCEPT ![r] = who]

\* lines 202-203 in run r
RunMakeTempFile ==
    \E r \in Runs :
       /\ run_pc[r] = "mktemp"
       /\ \/ \E n \in FreshNames(tmp_dir) :
               /\ temp_filename' = [temp_filename EXCEPT ![r] = n]
               /\ tmp_dir' = [tmp_dir EXCEPT ![n] = r]
               /\ run_pc' = [run_pc EXCEPT ![r] = "download_audio"]
               /\ UNCHANGED run_error
          \/ /\ run_pc' = [run_pc EXCEPT ![r] = "done"]
             /\ run_error' = [run_error EXCEPT ![r] = "NamedTemporaryFile"]
             /\ UNCHANGED <<temp_filename, tmp_dir>>
       /\ UNCHANGED removed
       /\ UNCHANGED conOthers

\* lines 206-207 in run r: the download into temp_filename ends
RunDownloadAudio ==
    \E r \in Runs :
       /\ run_pc[r] = "download_audio"
       /\ RunCall(r, "download_audio", "transcribe_audio_hf", "finally")
       /\ UNCHANGED <<temp_filename, tmp_dir, removed>>
       /\ UNCHANGED conOthers

\* lines 209-215 in run r: the transcription from temp_filename ends
RunTranscribeAudioHf ==
    \E r \in Runs :
       /\ run_pc[r] = "transcribe_audio_hf"
       /\ RunCall(r, "transcribe_audio_hf", "finally", "finally")
       /\ UNCHANGED <<temp_filename, tmp_dir, removed>>
       /\ UNCHANGED conOthers

\* lines 217-219 in run r: os.remove(temp_filename)
RunFinally ==
    \E r \in Runs :
       /\ run_pc[r] = "finally"
       /\ removed' = removed \cup
             {[by |-> r, name |-> temp_filename[r],
               owner |-> tmp_dir[temp_filename[r]]]}
       /\ tmp_dir' = [tmp_dir EXCEPT ![temp_filename[r]] = 0]
       /\ run_pc' = [run_pc EXCEPT ![r] = "done"]
       /\ UNCHANGED <<temp_filename, run_error>>
       /\ UNCHANGED conOthers

(***************************************************************************)
(* The page, app.py: the session state and the handlers that write it.     *)
(***************************************************************************)
NoSummary == [from |-> 0, text |-> "None"]
SummaryTexts == {"", "s"}

SearchAbsent == [kind |-> "absent", items |-> <<>>]
SearchNone == [kind |-> "None", items |-> <<>>]
SearchList(items) == [kind |-> "list", items |-> items]

\* line 160: 'search_results' in st.session_state and st.session_state.search_results
SearchShown == search_results.kind = "list" /\ Truthy(search_results.items)

\* the page is not loaded
UiIdle ==
    /\ clients = FALSE
    /\ transcription_result = 0
    /\ summary_result = NoSummary
    /\ episode_to_transcribe = None
    /\ search_results = SearchAbsent
    /\ ui_pc = "unloaded" /\ ui_origin = "none"
    /\ ui_runs = 0 /\ ui_last = "none"

\* lines 57-71: the first script run of a session
UiInit ==
    /\ clients \in BOOLEAN
    /\ transcription_result = 0
    /\ summary_result = NoSummary
    /\ episode_to_transcribe = None
    /\ search_results = SearchAbsent
    /\ ui_pc = "idle" /\ ui_origin = "none"
    /\ ui_runs = 0 /\ ui_last = "init"

\* mutant of ClearResults: the summary of the previous transcript is kept
ClearResults_KeepSummary ==
    /\ transcription_result' = 0
    /\ UNCHANGED summary_result

\* transcribe_episode lines 75-76
ClearResults ==
    /\ transcription_result' = 0
    /\ summary_result' = NoSummary

\* transcribe_episode lines 75-84: the results are cleared, then the
\* pipeline is entered
EnterPipeline(origin) ==
    /\ ui_pc = "idle"
    /\ ui_runs < MaxRuns
    /\ ClearResults
    /\ ui_pc' = "pipeline"
    /\ ui_origin' = origin
    /\ ui_runs' = ui_runs + 1
    /\ ui_last' = origin
    /\ UNCHANGED <<clients, episode_to_transcribe, search_results>>
    /\ UNCHANGED uiOthers

\* lines 124-125: the URL form was submitted with a URL
SubmitUrl == EnterPipeline("submit_url")

\* lines 141-142: "Yes, Transcribe" on the confirmation view
Confirm ==
    /\ episode_to_transcribe # None
    /\ EnterPipeline("confirm")

\* what the handler that called transcribe_episode does after it: line 143
\* for the confirmation, nothing for the URL form
AfterTranscribe ==
    episode_to_transcribe' =
        IF ui_origin = "confirm" THEN None ELSE episode_to_transcribe

\* lines 86-89: the pipeline returned and the result is stored
PipelineReturns ==
    /\ ui_pc = "pipeline"
    /\ clients
    /\ transcription_result' = ui_runs
    /\ AfterTranscribe
    /\ ui_pc' = "idle"
    /\ ui_last' = "transcribed"
    /\ UNCHANGED <<clients, summary_result, search_results, ui_origin, ui_runs>>
    /\ UNCHANGED uiOthers

\* lines 90-93: the pipeline raised; the error is shown, nothing is stored
PipelineRaises ==
    /\ ui_pc = "pipeline"
    /\ AfterTranscribe
    /\ ui_pc' = "idle"
    /\ ui_last' = "transcription_failed"
    /\ UNCHANGED <<clients, transcription_result, summary_result, search_results,
                   ui_origin, ui_runs>>
    /\ UNCHANGED uiOthers

\* lines 179, 201-207: "Generate Summary" under a stored transcript; the
\* summary of that transcript is stored, or summarize_text raises
GenerateSummary ==
    /\ ui_pc = "idle"
    /\ transcription_result # 0
    /\ clients
    /\ \/ \E t \in SummaryTexts :
            summary_result' = [from |-> transcription_result, text |-> t]
       \/ UNCHANGED summary_result
    /\ ui_last' = "generate_summary"
    /\ UNCHANGED <<clients, transcription_result, episode_to_transcribe,
                   search_results, ui_pc, ui_origin, ui_runs>>
    /\ UNCHANGED uiOthers

\* lines 127, 149-158: the search form, shown when no episode awaits
\* confirmation; the list found is stored, or the search raises
Search ==
    /\ ui_pc = "idle"
    /\ episode_to_transcribe = None
    /\ clients
    /\ \/ \E items \in SeqsUpTo(EpisodeIds \cup {None}, MaxShown) :
            search_results' = SearchList(items)
       \/ UNCHANGED search_results
    /\ ui_last' = "search"
    /\ UNCHANGED <<clients, transcription_result, summary_result,
                   episode_to_transcribe, ui_pc, ui_origin, ui_runs>>
    /\ UNCHANGED uiOthers

\* mutant of Select: the results stay after the selection
Select_KeepResults ==
    /\ ui_pc = "idle"
    /\ episode_to_transcribe = None
    /\ SearchShown
    /\ \E i \in 1..Len(search_results.items) :
          /\ search_results.items[i] # None
          /\ episode_to_transcribe' = search_results.items[i]
    /\ UNCHANGED search_results
    /\ ui_last' = "select"
    /\ UNCHANGED <<clients, transcription_result, summary_result,
                   ui_pc, ui_origin, ui_runs>>
    /\ UNCHANGED uiOthers

\* lines 160-175: "Select to Transcribe" on a listed episode (null entries
\* are skipped, line 164)
Select ==
    /\ ui_pc = "idle"
    /\ episode_to_transcribe = None
    /\ SearchShown
    /\ \E i \in 1..Len(search_results.items) :
          /\ search_results.items[i] # None
          /\ episode_to_transcribe' = search_results.items[i]
    /\ search_results' = SearchNone
    /\ ui_last' = "select"
    /\ UNCHANGED <<clients, transcription_result, summary_result,
                   ui_pc, ui_origin, ui_runs>>
    /\ UNCHANGED uiOthers

\* lines 145-147: "Cancel" on the confirmation view
Cancel ==
    /\ ui_pc = "idle"
    /\ episode_to_transcribe # None
    /\ episode_to_transcribe' = None
    /\ ui_last' = "cancel"
    /\ UNCHANGED <<clients, transcription_result, summary_result,
                   search_results, ui_pc, ui_origin, ui_runs>>
    /\ UNCHANGED uiOthers

\* a stage callback is called with sub-progress p: the call is recorded with
\* the bytes written so far and the place its status takes in the sink
Report(who, p, bytes) ==
    reports' = Append(reports,
        [who |-> who, p |-> p, written |-> bytes, at |-> Len(sink) + 1])

\* line 207: the progress_callback handed to download_audio
DownloadProgress(p, bytes) ==
    /\ Report("download_audio", p, bytes)
    /\ update_status("Downloading...", DownloadBand(p))

\* line 211: the progress_callback handed to transcribe_audio_hf
TranscribeProgress(p) ==
    /\ Report("transcribe_audio_hf", p, written)
    /\ update_status("Transcribing...", TranscribeBand(p))

(***************************************************************************)
(* get_transcript_from_url, lines 180-219.                                 *)
(***************************************************************************)
PipelineStart ==
    /\ pc = "status_connect"
    /\ sink = <<>>
    /\ calls = <<>>
    /\ tmp_created = FALSE
    /\ tmp_exists = FALSE
    /\ error = "none"
    /\ outcome = "running"
    /\ total_size = 0
    /\ dl = 0
    /\ written = 0
    /\ nchunks = 0
    /\ reports = <<>>

PipelineInit ==
    /\ PipelineStart
    /\ rss_pc = "idle" /\ RssIdle
    /\ it_pc = "idle" /\ ItunesIdle
    /\ sum_pc = "idle" /\ SumIdle
    /\ sp_pc = "idle" /\ SpotifyIdle
    /\ ConcurrentIdle
    /\ UiIdle

\* mutant of Raise: the cleanup runs on the success path only
Raise_NoFinally(who) ==
    /\ error' = who
    /\ pc' = "done"
    /\ outcome' = "raised"

\* An exception raised by call `who`: inside the try block control goes to
\* the finally clause, outside it the exception leaves the function.
Raise(who) ==
    /\ error' = who
    /\ IF tmp_created
         THEN pc' = "finally" /\ outcome' = outcome
         ELSE pc' = "done" /\ outcome' = "raised"

\* mutant of Status: the stage is entered without its status line
Status_Silent(at, msg, progress, next) ==
    /\ pc = at
    /\ pc' = next
    /\ UNCHANGED <<sink, calls, tmp_created, tmp_exists, error, outcome,
                   total_size, dl, written, nchunks, reports>>
    /\ UNCHANGED pipeOthers

\* A status line: update_status(msg, progress), then on to `next`.
Status(at, msg, progress, next) ==
    /\ pc = at
    /\ update_status(msg, progress)
    /\ pc' = next
    /\ UNCHANGED <<calls, tmp_created, tmp_exists, error, outcome,
                   total_size, dl, written, nchunks, reports>>
    /\ UNCHANGED pipeOthers

\* mutant of Call: a failed call is tried again
Call_Retry(at, who, next) ==
    /\ pc = at
    /\ calls' = Append(calls, who)
    /\ \E ok \in BOOLEAN :
         IF ok THEN pc' = next ELSE pc' = at
    /\ UNCHANGED <<sink, tmp_created, tmp_exists, error, outcome,
                   total_size, dl, written, nchunks, reports>>
    /\ UNCHANGED pipeOthers

\* A collaborator call that either returns or raises.
Call(at, who, next) ==
    /\ pc = at
    /\ calls' = Append(calls, who)
    /\ \E ok \in BOOLEAN :
         IF ok THEN pc' = next /\ UNCHANGED <<error, outcome>>
               ELSE Raise(who)
    /\ UNCHANGED <<sink, tmp_created, tmp_exists, total_size, dl, written, nchunks, reports>>
    /\ UNCHANGED pipeOthers

StatusConnect ==
    Status("status_connect", "Connecting to Spotify...", Frac(5, 100), "get_spotify_client")

GetSpotifyClient ==
    Call("get_spotify_client", "get_spotify_client", "status_extract")

StatusExtract ==
    Status("status_extract", "Extracting episode information...", Frac(1, 10), "extract_episode_id")

ExtractEpisodeId ==
    Call("extract_episode_id", "extract_episode_id", "get_spotify_episode_info")

GetSpotifyEpisodeInfo ==
    Call("get_spotify_episode_info", "get_spotify_episode_info", "status_feed")

StatusFeed ==
    Status("status_feed", "Finding podcast RSS feed...", Frac(2, 10), "search_itunes_podcast")

SearchItunesPodcast ==
    Call("search_itunes_podcast", "search_itunes_podcast", "status_locate")

StatusLocate ==
    Status("status_locate", "Locating audio file in RSS feed...", Frac(3, 10), "find_episode_in_rss")

FindEpisodeInRss ==
    Call("find_episode_in_rss", "find_episode_in_rss", "mktemp")

\* lines 202-203: NamedTemporaryFile(delete=False) creates the file, or raises
MakeTempFile ==
    /\ pc = "mktemp"
    /\ \E ok \in BOOLEAN :
         IF ok
           THEN /\ tmp_created' = TRUE
                /\ tmp_exists' = TRUE
                /\ pc' = "status_download"
                /\ UNCHANGED <<error, outcome>>
           ELSE /\ Raise("NamedTemporaryFile")
                /\ UNCHANGED <<tmp_created, tmp_exists>>
    /\ UNCHANGED <<sink, calls, total_size, dl, written, nchunks, reports>>
    /\ UNCHANGED pipeOthers

StatusDownload ==
    Status("status_download", "Downloading audio file...", Frac(4, 10), "download_audio")

\* download_audio lines 137-140: the request, its status check, the declared
\* length and the opening of the file
DownloadOpen ==
    /\ pc = "download_audio"
    /\ calls' = Append(calls, "download_audio")
    /\ \E ok \in BOOLEAN :
         IF ok
           THEN /\ \E n \in 0..MaxTotalSize : total_size' = n
                /\ pc' = "iter_content"
                /\ UNCHANGED <<error, outcome>>
           ELSE /\ Raise("download_audio")
                /\ UNCHANGED total_size
    /\ dl' = 0
    /\ written' = 0
    /\ nchunks' = 0
    /\ UNCHANGED <<sink, tmp_created, tmp_exists, reports>>
    /\ UNCHANGED pipeOthers

\* lines 143-147 and 149-151: one chunk of iter_content
DownloadChunk ==
    /\ pc = "iter_content"
    /\ nchunks < MaxChunks
    /\ nchunks' = nchunks + 1
    /\ \E n \in 0..MaxChunkLen :
         IF n = 0
           THEN UNCHANGED <<written, dl, sink, reports>>
           ELSE /\ written' = written + n
                /\ IF total_size > 0
                     THEN /\ dl' = dl + n
                          /\ DownloadProgress(DownloadSubProgress(dl + n, total_size),
                                              written + n)
                     ELSE UNCHANGED <<dl, sink, reports>>
    /\ UNCHANGED <<pc, calls, tmp_created, tmp_exists, error, outcome, total_size>>
    /\ UNCHANGED pipeOthers

\* mutant of DownloadEnd: nothing is reported when no length was declared
DownloadEnd_NoFinalReport ==
    /\ pc = "iter_content"
    /\ UNCHANGED <<sink, reports>>
    /\ pc' = "status_transcribe"
    /\ UNCHANGED <<calls, tmp_created, tmp_exists, error, outcome,
                   total_size, dl, written, nchunks>>
    /\ UNCHANGED pipeOthers

\* the stream ends: lines 152-153 report 1.0 when no length was declared
DownloadEnd ==
    /\ pc = "iter_content"
    /\ IF total_size > 0
         THEN UNCHANGED <<sink, reports>>
         ELSE DownloadProgress(One, written)
    /\ pc' = "status_transcribe"
    /\ UNCHANGED <<calls, tmp_created, tmp_exists, error, outcome,
                   total_size, dl, written, nchunks>>
    /\ UNCHANGED pipeOthers

\* the transport fails while the body is streamed
DownloadFail ==
    /\ pc = "iter_content"
    /\ Raise("download_audio")
    /\ UNCHANGED <<sink, calls, tmp_created, tmp_exists,
                   total_size, dl, written, nchunks, reports>>
    /\ UNCHANGED pipeOthers

StatusTranscribe ==
    Status("status_transcribe", "Transcribing audio (this may take a while)...",
           Frac(7, 10), "transcribe_audio_hf")

\* transcribe_audio_hf lines 161-172: the provider call raises, or it returns
\* and progress 1.0 is reported
TranscribeAudioHf ==
    /\ pc = "transcribe_audio_hf"
    /\ calls' = Append(calls, "transcribe_audio_hf")
    /\ \E ok \in BOOLEAN :
         IF ok
           THEN /\ TranscribeProgress(One)
                /\ pc' = "status_complete"
                /\ UNCHANGED <<error, outcome>>
           ELSE /\ Raise("transcribe_audio_hf")
                /\ UNCHANGED <<sink, reports>>
    /\ UNCHANGED <<tmp_created, tmp_exists, total_size, dl, written, nchunks>>
    /\ UNCHANGED pipeOthers

\* lines 214-215: the last status, then return (through the finally clause)
StatusComplete ==
    Status("status_complete", "Transcription complete!", One, "finally")

\* what os.remove leaves of the file
RemoveFile(exists) == FALSE

\* lines 217-219: the finally clause, then the return or the re-raise
Finally ==
    /\ pc = "finally"
    /\ tmp_exists' = RemoveFile(tmp_exists)
    /\ update_status("Cleaning up temporary files.", One)
    /\ outcome' = IF error = "none" THEN "returned" ELSE "raised"
    /\ pc' = "done"
    /\ UNCHANGED <<calls, tmp_created, error, total_size, dl, written, nchunks, reports>>
    /\ UNCHANGED pipeOthers

PipelineStep ==
    \/ StatusConnect \/ GetSpotifyClient
    \/ StatusExtract \/ ExtractEpisodeId \/ GetSpotifyEpisodeInfo
    \/ StatusFeed \/ SearchItunesPodcast
    \/ StatusLocate \/ FindEpisodeInRss
    \/ MakeTempFile
    \/ StatusDownload \/ DownloadOpen \/ DownloadChunk \/ DownloadEnd \/ DownloadFail
    \/ StatusTranscribe \/ TranscribeAudioHf
    \/ StatusComplete \/ Finally

PipelineNext == PipelineStep

Init == PipelineInit
Next == PipelineNext
Spec == Init /\ [][Next]_vars

PipelineIdle ==
    /\ pc = "idle" /\ sink = <<>> /\ calls = <<>>
    /\ tmp_created = FALSE /\ tmp_exists = FALSE
    /\ error = "none" /\ outcome = "running"
    /\ total_size = 0 /\ dl = 0 /\ written = 0 /\ nchunks = 0
    /\ reports = <<>>

InitRss ==
    /\ RssInit /\ PipelineIdle
    /\ it_pc = "idle" /\ ItunesIdle
    /\ sum_pc = "idle" /\ SumIdle
    /\ sp_pc = "idle" /\ SpotifyIdle
    /\ ConcurrentIdle
    /\ UiIdle
NextRss == RssSelectBest \/ RssDecide
SpecRss == InitRss /\ [][NextRss]_vars

InitItunes ==
    /\ ItunesInit /\ PipelineIdle
    /\ rss_pc = "idle" /\ RssIdle
    /\ sum_pc = "idle" /\ SumIdle
    /\ sp_pc = "idle" /\ SpotifyIdle
    /\ ConcurrentIdle
    /\ UiIdle
NextItunes == ItunesRequest \/ ItunesSelectBest \/ ItunesReturn \/ ItunesAgain
SpecItunes == InitItunes /\ [][NextItunes]_vars

InitSummarize ==
    /\ SumInit /\ PipelineIdle
    /\ rss_pc = "idle" /\ RssIdle
    /\ it_pc = "idle" /\ ItunesIdle
    /\ sp_pc = "idle" /\ SpotifyIdle
    /\ ConcurrentIdle
    /\ UiIdle
NextSummarize == SumSplit \/ SumChunk \/ SumCombine
SpecSummarize == InitSummarize /\ [][NextSummarize]_vars

InitSearch ==
    /\ SpotifyInit /\ PipelineIdle
    /\ rss_pc = "idle" /\ RssIdle
    /\ it_pc = "idle" /\ ItunesIdle
    /\ sum_pc = "idle" /\ SumIdle
    /\ ConcurrentIdle
    /\ UiIdle
NextSearch == SpotifySearch \/ SpotifyIds \/ SpotifyEpisodes
SpecSearch == InitSearch /\ [][NextSearch]_vars

InitConcurrent ==
    /\ ConcurrentInit /\ PipelineIdle
    /\ rss_pc = "idle" /\ RssIdle
    /\ it_pc = "idle" /\ ItunesIdle
    /\ sum_pc = "idle" /\ SumIdle
    /\ sp_pc = "idle" /\ SpotifyIdle
    /\ UiIdle
NextConcurrent ==
    RunMakeTempFile \/ RunDownloadAudio \/ RunTranscribeAudioHf \/ RunFinally
SpecConcurrent == InitConcurrent /\ [][NextConcurrent]_vars

InitUI ==
    /\ UiInit /\ PipelineIdle
    /\ rss_pc = "idle" /\ RssIdle
    /\ it_pc = "idle" /\ ItunesIdle
    /\ sum_pc = "idle" /\ SumIdle
    /\ sp_pc = "idle" /\ SpotifyIdle
    /\ ConcurrentIdle
NextUI ==
    \/ SubmitUrl \/ Confirm \/ PipelineReturns \/ PipelineRaises
    \/ GenerateSummary \/ Search \/ Select \/ Cancel
SpecUI == InitUI /\ [][NextUI]_vars

(***************************************************************************)
(* Properties of get_transcript_from_url (checked under Spec).             *)
(***************************************************************************)
Fractions == [i \in 1..Len(sink) |-> sink[i].frac]
IsPrefix(s, t) == Len(s) <= Len(t) /\ \A i \in 1..Len(s) : s[i] = t[i]
Last(s) == s[Len(s)]

\* the collaborator calls of lines 190-212 in program order
StageOrder ==
    <<"get_spotify_client", "extract_episode_id", "get_spotify_episode_info",
      "search_itunes_podcast", "find_episode_in_rss", "download_audio",
      "transcribe_audio_hf">>

\* C1: whenever a run that created the temporary file has returned or
\* raised, the file is no longer on disk.
C1_TempFileRemoved ==
    (pc = "done" /\ tmp_created) => ~tmp_exists

\* C1 witness: the transcription failed after the file was created and
\* downloaded into, and the call has raised.
C1_Witness ==
    /\ pc = "done" /\ outcome = "raised" /\ tmp_created
    /\ error = "transcribe_audio_hf" /\ written > 0

\* C2 (as claimed): in a run whose download stage failed, no fraction in the
\* sink exceeds 0.4, the fraction emitted when the download stage started.
C2_NoFractionBeyondDownloadStart ==
    error = "download_audio" =>
        \A i \in 1..Len(sink) : FracLeq(sink[i].frac, Frac(4, 10))

\* C3: the fractions delivered in one run are non-decreasing and all lie in
\* [0,1].
C3_FractionsMonotoneInUnit ==
    /\ \A i \in 1..Len(sink) : FracInUnit(Fractions[i])
    /\ \A i \in 1..Len(sink) : \A j \in i..Len(sink) :
          FracLeq(Fractions[i], Fractions[j])

\* C3 witness: the server sent more bytes than it declared, progress was
\* reported for them, and the run went on to finish.
C3_Witness ==
    /\ pc = "done" /\ outcome = "returned"
    /\ total_size > 0 /\ dl > total_size

\* C4: the calls are made in the fixed order, each at most once; after a
\* call has raised no further call is made, and the run ends raised with
\* that error; a run returns only after all stages have run without error.
C4_StagesInOrderAbortOnFailure ==
    /\ IsPrefix(calls, StageOrder)
    /\ (error \in {StageOrder[i] : i \in 1..Len(StageOrder)}) =>
          (calls # <<>> /\ Last(calls) = error)
    /\ (error = "NamedTemporaryFile") =>
          (calls # <<>> /\ Last(calls) = "find_episode_in_rss")
    /\ (error # "none") => (pc \in {"finally", "done"} /\ outcome # "returned")
    /\ (pc = "done" /\ error # "none") => outcome = "raised"
    /\ (outcome = "returned") => (error = "none" /\ calls = StageOrder)

\* C4 witness: the feed stage failed; the run is over, raised, and neither
\* the locate nor a later stage was called.
C4_Witness ==
    /\ pc = "done" /\ outcome = "raised"
    /\ error = "search_itunes_podcast"
    /\ Len(calls) = 4


(***************************************************************************)
(* Properties of find_episode_in_rss (checked under SpecRss).              *)
(***************************************************************************)
\* the similarity of entry i of the feed to the episode title
RssScore(i) ==
    Ratio(Lower(IF "title" \in rss_entries[i].keys THEN rss_entries[i].title ELSE <<>>),
          Lower(rss_title))
RssHasEnclosure(i) ==
    "enclosures" \in rss_entries[i].keys /\ Len(rss_entries[i].enclosures) > 0

\* C5: a URL is returned only if it is the first enclosure of the selected
\* entry, that entry scores highest, its score is strictly above 0.8 and it
\* has an enclosure; an empty feed, a best score of 0.8 or less and a
\* selected entry without enclosures all make the call fail.
C5_LocateAboveThresholdOnly ==
    rss_pc = "done" =>
      /\ rss_ret.kind \in {"return", "raise"}
      /\ rss_ret.kind = "return" =>
            /\ rss_best \in 1..Len(rss_entries)
            /\ \A j \in 1..Len(rss_entries) : FracLeq(RssScore(j), RssScore(rss_best))
            /\ ~FracLeq(RssScore(rss_best), Frac(8, 10))
            /\ RssHasEnclosure(rss_best)
            /\ rss_ret.value = rss_entries[rss_best].enclosures[1]
      /\ ( \/ Len(rss_entries) = 0
           \/ \A j \in 1..Len(rss_entries) : FracLeq(RssScore(j), Frac(8, 10))
           \/ (rss_best # 0 /\ ~RssHasEnclosure(rss_best)) )
            => rss_ret.kind = "raise"

\* C5 witness: the second of two entries scores 8/9, the first lower; its
\* first enclosure was returned.
C5_Witness ==
    /\ rss_pc = "done" /\ Len(rss_entries) = 2 /\ rss_best = 2
    /\ FracEq(RssScore(2), Frac(8, 9))
    /\ rss_ret = Return("u2")

(***************************************************************************)
(* Properties of search_itunes_podcast (checked under SpecItunes).         *)
(***************************************************************************)
ItScore(results, i) ==
    Ratio(Lower(IF "collectionName" \in results[i].keys
                  THEN results[i].collectionName ELSE <<>>),
          Lower(it_show))
ItMaximal(results, i) ==
    \A j \in 1..Len(results) : FracLeq(ItScore(results, j), ItScore(results, i))
ItSelectedLacksFeed ==
    it_best # 0 /\ "feedUrl" \notin it_results[it_best].keys
ItReturnsBestFeed ==
    it_ret.kind = "return" =>
        /\ it_best \in 1..Len(it_results)
        /\ ItMaximal(it_results, it_best)
        /\ it_ret.value = it_results[it_best].feedUrl

\* C6 (as claimed): the call fails only if the directory returned zero
\* results or the selected candidate has no feed URL, and never otherwise;
\* what it returns is the feed of a maximum-scoring candidate.
C6_FailsOnlyOnNoResultOrNoFeed ==
    it_pc = "done" =>
      /\ it_ret.kind \in {"return", "raise"}
      /\ it_ret.kind = "raise" =>
            (it_http = "ok" /\ (Len(it_results) = 0 \/ ItSelectedLacksFeed))
      /\ ItReturnsBestFeed

\* C6 (amended): the call fails exactly when the directory request itself
\* fails, or the directory returned zero results, or the selected candidate
\* has no feed URL; otherwise it returns the feed of the selected candidate,
\* which scores highest, whatever that score is.
C6_FailsOnlyOnRequestNoResultOrNoFeed ==
    it_pc = "done" =>
      /\ it_ret.kind \in {"return", "raise"}
      /\ it_ret.kind = "raise" <=>
            (it_http = "error" \/ Len(it_results) = 0 \/ ItSelectedLacksFeed)
      /\ ItReturnsBestFeed

\* C6 witness: no candidate resembles the show name at all (every score is
\* 0) and the feed of the selected one was returned all the same.
C6_Witness ==
    /\ it_pc = "done" /\ it_run = 1 /\ Len(it_results) = 2
    /\ \A j \in 1..2 : ItScore(it_results, j)[1] = 0
    /\ it_ret.kind = "return"

ItBothAnswered ==
    /\ it_pc = "done" /\ it_run = 2
    /\ it_http = "ok" /\ it_first.http = "ok"
ItUniqueMaximum ==
    \E i \in 1..Len(it_results) :
        \A j \in 1..Len(it_results) :
            j # i => ~FracLeq(ItScore(it_results, i), ItScore(it_results, j))

\* C7 (as claimed): two calls for the same show that get the same results
\* in different orders have the same outcome.
C7_SameFeedForEveryOrder ==
    ItBothAnswered => it_ret = it_first.ret

\* C7 (amended): two calls for the same show that get the same results in
\* different orders have the same outcome whenever one candidate scores
\* strictly higher than every other.
C7_SameFeedWhenMaximumUnique ==
    (ItBothAnswered /\ ItUniqueMaximum) => it_ret = it_first.ret

\* C7 witness: the strictly best candidate was first in one call and second
\* in the other, and its feed was returned by the second call.
C7_Witness ==
    /\ ItBothAnswered /\ ItUniqueMaximum
    /\ Len(it_results) = 2 /\ it_results # it_first.results
    /\ it_results[1].feedUrl # it_results[2].feedUrl
    /\ "feedUrl" \in it_results[1].keys /\ "feedUrl" \in it_results[2].keys
    /\ it_best = 2
    /\ it_ret.kind = "return"

(***************************************************************************)
(* Properties of summarize_text (checked under SpecSummarize).             *)
(***************************************************************************)
SumChunkCalls == SelectSeq(sum_calls, LAMBDA c : c.pass = "chunk")
SumReduceCalls == SelectSeq(sum_calls, LAMBDA c : c.pass = "reduce")
SumSucceeded == SelectSeq(SumChunkCalls, LAMBDA c : c.outcome.ok)
SumNonBlankChunks == SelectSeq(Split(sum_text), LAMBDA ch : ~IsBlank(ch))

\* C8: summarize_text returns, whatever chunk calls failed; the provider was
\* called once for each non-empty chunk, in order, and the text combined
\* before any reduction is the summaries of the calls that succeeded, in
\* that order, with one blank line between two neighbours and nothing else.
C8_FailedChunksSkipped ==
    sum_pc = "done" =>
      /\ sum_ret.kind = "return"
      /\ Len(SumChunkCalls) = Len(SumNonBlankChunks)
      /\ \A i \in 1..Len(SumChunkCalls) : SumChunkCalls[i].input = SumNonBlankChunks[i]
      /\ Len(sum_combined) =
            IF Len(SumSucceeded) = 0 THEN 0 ELSE 2 * Len(SumSucceeded) - 1
      /\ \A i \in 1..Len(SumSucceeded) :
            sum_combined[2 * i - 1] = SumSucceeded[i].outcome.summary
      /\ \A i \in 1..(Len(SumSucceeded) - 1) : sum_combined[2 * i] = BlankLine

\* C8 witness: three paragraphs, the provider failed on the second one only,
\* and the call returned the two summaries around one blank line.
C8_Witness ==
    /\ sum_pc = "done" /\ Len(SumChunkCalls) = 3
    /\ SumChunkCalls[1].outcome.ok /\ ~SumChunkCalls[2].outcome.ok
    /\ SumChunkCalls[3].outcome.ok
    /\ sum_ret = Return(<<SumChunkCalls[1].outcome.summary, BlankLine,
                          SumChunkCalls[3].outcome.summary>>)

\* C9: one reduction call is made when the combined summaries hold more than
\* 400 tokens and none when they hold 400 or fewer; the provider is called
\* once per non-empty chunk plus that reduction call.
C9_OneReductionAbove400 ==
    sum_pc = "done" =>
      /\ Len(SumReduceCalls) = (IF CountTokens(sum_combined) > 400 THEN 1 ELSE 0)
      /\ Len(sum_calls) = Len(SumNonBlankChunks) + Len(SumReduceCalls)

\* C9 witness: two summaries of 200 and 201 tokens were combined and the
\* third call, the reduction, was made.
C9_Witness ==
    /\ sum_pc = "done" /\ CountTokens(sum_combined) = 401
    /\ Len(sum_calls) = 3 /\ Len(SumReduceCalls) = 1
    /\ sum_calls[3].pass = "reduce"

\* the summaries of the chunk calls that succeeded, one blank line between
\* two neighbours
RECURSIVE Concatenation(_)
Concatenation(cs) ==
    IF cs = <<>> THEN <<>>
    ELSE IF Len(cs) = 1 THEN <<cs[1].outcome.summary>>
    ELSE <<cs[1].outcome.summary, BlankLine>> \o Concatenation(Tail(cs))

\* C14: when the reduction call fails summarize_text returns (does not
\* raise) the blank-line-joined chunk summaries, un-reduced; when it succeeds
\* it returns the reduced text alone.
C14_ReductionFailureReturnsCombined ==
    (sum_pc = "done" /\ SumReduceCalls # <<>>) =>
       IF SumReduceCalls[1].outcome.ok
         THEN sum_ret = Return(<<SumReduceCalls[1].outcome.summary>>)
         ELSE sum_ret = Return(Concatenation(SumSucceeded))

\* C14 witness: two chunk summaries of 401 tokens together, the reduction
\* call failed, and the two summaries came back around one blank line.
C14_Witness ==
    /\ sum_pc = "done" /\ Len(SumSucceeded) = 2
    /\ Len(SumReduceCalls) = 1 /\ ~SumReduceCalls[1].outcome.ok
    /\ sum_ret.kind = "return" /\ Len(sum_ret.value) = 3
    /\ CountTokens(sum_ret.value) > ReduceThreshold

\* C15 (as claimed): the progress values reported by summarize_text never
\* decrease, and once every chunk has been processed the last value reported
\* is 1.0, whatever chunks were blank or failed.
C15_ProgressEndsAtOne ==
    /\ \A i \in 1..Len(sum_progress) : \A j \in i..Len(sum_progress) :
          FracLeq(sum_progress[i], sum_progress[j])
    /\ sum_pc = "done" =>
          (sum_progress # <<>> /\ FracEq(Last(sum_progress), One))

(***************************************************************************)
(* Properties of search_spotify_episodes (checked under SpecSearch).       *)
(***************************************************************************)
\* C10 (as claimed): a returned sequence holds no null entry, and an empty
\* query or a search without results returns the empty sequence.
C10_NoNullEntryReturned ==
    sp_pc = "done" =>
      /\ sp_ret.kind = "return" =>
            \A i \in 1..Len(sp_ret.value) : sp_ret.value[i] # None
      /\ (sp_query = "" \/ (sp_ret.kind # "raise" /\ sp_items = <<>>)) =>
            sp_ret = Return(<<>>)


(***************************************************************************)
(* Properties of the progress callbacks of download_audio and              *)
(* transcribe_audio_hf (checked under Spec).                               *)
(***************************************************************************)
DownloadReports == SelectSeq(reports, LAMBDA r : r.who = "download_audio")
TranscribeReports == SelectSeq(reports, LAMBDA r : r.who = "transcribe_audio_hf")

\* download_audio has returned: the run is past the download stage and it
\* was not the download that raised
DownloadCompleted ==
    \/ pc \in {"status_transcribe", "transcribe_audio_hf", "status_complete"}
    \/ (pc \in {"finally", "done"} /\ error \in {"none", "transcribe_audio_hf"})

\* no report divides by zero; with no declared length nothing is reported
\* while chunks arrive and exactly one report, 1.0, is made after all chunks
\* are written
ZeroLengthReportsOnce ==
    /\ \A i \in 1..Len(reports) : reports[i].p[2] # 0
    /\ (total_size = 0 /\ ~DownloadCompleted) => DownloadReports = <<>>
    /\ (total_size = 0 /\ DownloadCompleted) =>
          /\ Len(DownloadReports) = 1
          /\ FracEq(DownloadReports[1].p, One)
          /\ DownloadReports[1].written = written

\* C11 (as claimed): with declared length zero the download reports once,
\* 1.0, after all chunks; with a positive declared length every report
\* equals bytes_received / content_length.
C11_ReportsEqualReceivedOverLength ==
    /\ ZeroLengthReportsOnce
    /\ total_size > 0 =>
          \A i \in 1..Len(DownloadReports) :
             FracEq(DownloadReports[i].p,
                    Frac(DownloadReports[i].written, total_size))

\* C11 (amended): with declared length zero the download reports once, 1.0,
\* after all chunks; with a positive declared length every report equals
\* bytes_received / content_length capped at 1.0.
C11_ReportsEqualCappedReceivedOverLength ==
    /\ ZeroLengthReportsOnce
    /\ total_size > 0 =>
          \A i \in 1..Len(DownloadReports) :
             FracEq(DownloadReports[i].p,
                    IF DownloadReports[i].written >= total_size
                      THEN One
                      ELSE Frac(DownloadReports[i].written, total_size))

\* C11 witness: a download with a positive declared length received more
\* bytes than declared, reported on them, and the run returned.
C11_Witness ==
    /\ pc = "done" /\ outcome = "returned" /\ total_size > 0
    /\ \E i \in 1..Len(DownloadReports) :
          /\ DownloadReports[i].written > total_size
          /\ FracEq(DownloadReports[i].p, One)

\* the linear map of sub-progress p into the band lo/10 .. hi/10
InBand(lo, hi, p) == Frac(lo * p[2] + (hi - lo) * p[1], 10 * p[2])

\* every sub-progress report reached the sink, under the stage's own
\* message, as the fraction `band` gives for it
ReportsMapped(who, msg, band(_)) ==
    \A i \in 1..Len(reports) :
       reports[i].who = who =>
          /\ reports[i].at \in 1..Len(sink)
          /\ sink[reports[i].at].msg = msg
          /\ FracEq(sink[reports[i].at].frac, band(reports[i].p))

\* C12 (as claimed): download sub-progress is mapped linearly into 0.30 to
\* 0.70, transcription sub-progress into 0.70 to 1.00.
C12_DownloadBandFrom30 ==
    /\ ReportsMapped("download_audio", "Downloading...",
                     LAMBDA q : InBand(3, 7, q))
    /\ ReportsMapped("transcribe_audio_hf", "Transcribing...",
                     LAMBDA q : InBand(7, 10, q))

\* C12 (amended): download sub-progress is mapped linearly into 0.40 to
\* 0.70 (p=0 gives 0.40, p=1 gives 0.70), transcription sub-progress into
\* 0.70 to 1.00.
C12_DownloadBandFrom40 ==
    /\ ReportsMapped("download_audio", "Downloading...",
                     LAMBDA q : InBand(4, 7, q))
    /\ ReportsMapped("transcribe_audio_hf", "Transcribing...",
                     LAMBDA q : InBand(7, 10, q))

\* C12 witness: a run returned after a download that reported a sub-progress
\* strictly inside (0,1) and a transcription that reported too.
C12_Witness ==
    /\ pc = "done" /\ outcome = "returned"
    /\ \E i \in 1..Len(DownloadReports) :
          /\ DownloadReports[i].p[1] > 0
          /\ DownloadReports[i].p[1] < DownloadReports[i].p[2]
    /\ TranscribeReports # <<>>


(***************************************************************************)
(* Properties of concurrent runs (checked under SpecConcurrent).           *)
(***************************************************************************)
\* run r has created its file and has not yet removed it
HoldsFile(r) == run_pc[r] \in {"download_audio", "transcribe_audio_hf", "finally"}

\* C13: at every moment of every interleaving the runs that hold a file
\* hold distinct files, every os.remove removed the file of the run that
\* called it, and the file of a run that is downloading or transcribing is
\* on disk and is its own.
C13_DistinctFilesOwnDeletes ==
    /\ \A r1 \in Runs : \A r2 \in Runs :
          (r1 # r2 /\ HoldsFile(r1) /\ HoldsFile(r2)) =>
             temp_filename[r1] # temp_filename[r2]
    /\ \A d \in removed : d.owner = d.by
    /\ \A r \in Runs :
          run_pc[r] \in {"download_audio", "transcribe_audio_hf"} =>
             tmp_dir[temp_filename[r]] = r

\* C13 witness: one run has removed its file and ended while another run,
\* started beside it, is still transcribing from its own file.
C13_Witness ==
    \E r1 \in Runs : \E r2 \in Runs :
       /\ r1 # r2
       /\ run_pc[r1] = "done"
       /\ [by |-> r1, name |-> temp_filename[r1], owner |-> r1] \in removed
       /\ run_pc[r2] = "transcribe_audio_hf"
       /\ temp_filename[r2] # 0


(***************************************************************************)
(* Order of status lines and stage work in get_transcript_from_url         *)
(* (checked under Spec).                                                   *)
(***************************************************************************)
\* the status line that lines 189-209 put before each call
StageStatus(who) ==
    CASE who = "get_spotify_client" -> "Connecting to Spotify..."
      [] who \in {"extract_episode_id", "get_spotify_episode_info"} ->
            "Extracting episode information..."
      [] who = "search_itunes_podcast" -> "Finding podcast RSS feed..."
      [] who = "find_episode_in_rss" -> "Locating audio file in RSS feed..."
      [] who = "download_audio" -> "Downloading audio file..."
      [] who = "transcribe_audio_hf" ->
            "Transcribing audio (this may take a while)..."

\* C16: whenever the work of a stage begins (its call is made), the status
\* line of that stage, with a fraction, is already in the sink and is the
\* latest line delivered; no call is made without it.
C16_StatusBeforeWork ==
    [][calls' # calls =>
          /\ sink # <<>>
          /\ Last(sink).msg = StageStatus(Last(calls'))
          /\ FracInUnit(Last(sink).frac)]_vars

\* C16 witness: all stages have done their work and each of the six status
\* lines that precede them is in the sink.
C16_Witness ==
    /\ calls = StageOrder
    /\ \A k \in 1..Len(StageOrder) :
          \E i \in 1..Len(sink) : sink[i].msg = StageStatus(StageOrder[k])


(***************************************************************************)
(* Properties of the session state of the page (checked under SpecUI).     *)
(***************************************************************************)
\* C17: a summary is stored only while a transcript is stored and it is the
\* summary of that transcript; while the pipeline runs both are cleared, and
\* after a failed transcription both are cleared.
C17_SummaryOfStoredTranscript ==
    /\ summary_result # NoSummary =>
          (transcription_result # 0 /\ summary_result.from = transcription_result)
    /\ ui_pc = "pipeline" =>
          (transcription_result = 0 /\ summary_result = NoSummary)
    /\ ui_last = "transcription_failed" =>
          (transcription_result = 0 /\ summary_result = NoSummary)

\* C17 witness: a second transcription replaced the first one, and the
\* summary then generated is stored with the second transcript.
C17_Witness ==
    /\ ui_last = "generate_summary" /\ ui_runs = 2
    /\ transcription_result = 2
    /\ summary_result = [from |-> 2, text |-> "s"]

\* C18: an episode awaiting confirmation and a non-empty list of search
\* results are never stored together; a selection leaves the results
\* cleared, a search ran only while no episode awaited confirmation, and
\* after a confirmation or a cancel no episode awaits confirmation.
C18_EpisodeOrResults ==
    /\ ~(episode_to_transcribe # None /\ SearchShown)
    /\ ui_last = "select" =>
          (episode_to_transcribe # None /\ search_results = SearchNone)
    /\ ui_last = "search" => episode_to_transcribe = None
    /\ ui_last = "cancel" => episode_to_transcribe = None
    /\ (ui_pc = "idle" /\ ui_origin = "confirm"
          /\ ui_last \in {"transcribed", "transcription_failed"}) =>
          episode_to_transcribe = None

\* C18 witness: an episode was selected from the listed results and now
\* awaits confirmation, the results cleared.
C18_Witness ==
    /\ ui_last = "select" /\ episode_to_transcribe \in EpisodeIds
    /\ search_results = SearchNone

====
